---- MODULE Spec2Model ----
\* Roll-forward fsync recovery of the FS (fs/f3fs/recovery.c): the discovery
\* pass (find_fsync_dnodes), the repair pass (recover_data, do_recover_data,
\* check_index_in_prev_nodes) and the orchestrator (f3fs_recover_fsync_data).
EXTENDS Integers, Sequences, FiniteSets, TLC

\* ------------------------------------------------------------------ bounds
\* Number of node-block addresses the post-checkpoint chain may use.
MaxChain == 3
\* Number of times in a row f3fs_add_dentry may fail with -ENOMEM.
MaxOom == 2

\* ----------------------------------------------------------- program values
NULL_ADDR == 0
NEW_ADDR == -1
ENOENT == -2
EIO == -5
ENOMEM == -12
EEXIST == -17
EINVAL == -22
ENOSPC == -28
EFSCORRUPTED == -117

\* Main area layout: two data blocks, then the blocks of the warm-node log.
MAIN_BLKADDR == 1
DataAddrs == MAIN_BLKADDR .. (MAIN_BLKADDR + 1)
NEXT_FREE_BLKADDR == MAIN_BLKADDR + 2
NodeAddrs == NEXT_FREE_BLKADDR .. (NEXT_FREE_BLKADDR + MaxChain - 1)
MAX_BLKADDR == NEXT_FREE_BLKADDR + MaxChain

\* Inodes of regular files; each has an inode node (nid = ino, node offset 0)
\* and one direct node (node offset 1).
Inos == {1, 2}
DirIno == 5
OldIno == 9
AllInos == Inos \cup {DirIno, OldIno}
DNid(ino) == ino + 2
Nids == Inos \cup {DNid(i) : i \in Inos}
ino_of_nid(nid) == IF nid \in Inos THEN nid ELSE nid - 2
ofs_of_nid(nid) == IF nid \in Inos THEN 0 ELSE 1
\* ADDRS_PER_PAGE/ADDRS_PER_INODE scaled down to two slots per node.
Slots == {0, 1}
f3fs_start_bidx_of_node(ofs) == IF ofs = 0 THEN 0 ELSE Cardinality(Slots)

\* Modes of an inode: the mode at the checkpoint and the one on node pages.
OldMode == 600
NewMode == 644

\* ------------------------------------------------------------ block checks
\* f3fs_is_valid_blkaddr(sbi, blkaddr, META_POR)
f3fs_is_valid_blkaddr(blkaddr) ==
    ~(blkaddr >= MAX_BLKADDR \/ blkaddr < MAIN_BLKADDR)

__is_valid_data_blkaddr(blkaddr) ==
    blkaddr # NEW_ADDR /\ blkaddr # NULL_ADDR

\* ------------------------------------------------------------- node pages
\* footer: nid (ino follows from it), fsync and dentry marks, recoverable
\* (cp_ver matches), next_blkaddr; body: the data indices, the mode.
IS_INODE(page) == page.nid = ino_of_nid(page.nid)
ino_of_node(page) == ino_of_nid(page.nid)
ofs_of_node(page) == ofs_of_nid(page.nid)
is_fsync_dnode(page) == page.fsync
is_dent_dnode(page) == page.dent
is_recoverable_dnode(page) == page.rec
next_blkaddr_of_node(page) == page.next

NullIdx == [s \in Slots |-> NULL_ADDR]

\* A block that was not written after the checkpoint: stale cp_ver.
StalePage ==
    [nid |-> DNid(1), fsync |-> FALSE, dent |-> FALSE, rec |-> FALSE,
     next |-> NULL_ADDR, addr |-> NullIdx, mode |-> OldMode, size |-> 0]

\* ------------------------------------------------- the state at the checkpoint
\* nat: inos with a NAT entry; live: the data indices of every node;
\* valid: cur_valid_map; sum: the summary entries; dir: the ino the name of
\* each file resolves to in the parent directory (0: no entry).
D1 == MAIN_BLKADDR
D2 == MAIN_BLKADDR + 1

CheckpointFs(nat0, stale) ==
    [nat |-> nat0,
     live |-> [n \in Nids |-> IF n = 1 THEN [s \in Slots |-> IF s = 0 THEN D1 ELSE NULL_ADDR]
                                       ELSE NullIdx],
     valid |-> [a \in DataAddrs |-> a = D1],
     sum |-> [a \in DataAddrs |-> [nid |-> 1, ofs_in_node |-> 0]],
     i_mode |-> [i \in Inos |-> OldMode],
     i_size |-> [i \in Inos |-> IF i = 1 THEN 1 ELSE 0],
     dir |-> [i \in Inos |-> IF i \in nat0 THEN i ELSE stale],
     orphans |-> 0]

\* ------------------------------------------------------------ the disk images
Nexts == NodeAddrs \cup {MAX_BLKADDR}

\* The addresses a walk from the first free block of the warm-node log reads.
RECURSIVE Walk(_, _, _)
Walk(d, a, seen) ==
    IF a \notin NodeAddrs \/ a \in seen THEN seen
    ELSE IF ~d[a].rec THEN seen \cup {a}
    ELSE Walk(d, d[a].next, seen \cup {a})

Reached(d) == Walk(d, NEXT_FREE_BLKADDR, {})

NodePage(n, f, dm, nx, ad) ==
    [nid |-> n, fsync |-> f, dent |-> dm, rec |-> TRUE, next |-> nx,
     addr |-> ad, mode |-> NewMode, size |-> 1]

\* Family 1: any next pointers (back-edges, self-loops, early ends) on
\* fsync-marked direct nodes of inode 1 that change no index. Blocks the walk
\* does not reach were not written after the checkpoint.
ShapePages ==
    {StalePage} \cup {NodePage(DNid(1), TRUE, FALSE, n, NullIdx) : n \in Nexts}

ShapeDisks ==
    {d \in [NodeAddrs -> ShapePages] : \A a \in NodeAddrs \ Reached(d) : d[a] = StalePage}

\* A log written in order: block a links to a + 1; the blocks after the
\* n-th were not written after the checkpoint.
LinearDisk(pages) ==
    [a \in NodeAddrs |->
        IF a - NEXT_FREE_BLKADDR < Len(pages)
        THEN [pages[a - NEXT_FREE_BLKADDR + 1] EXCEPT !.next = a + 1]
        ELSE StalePage]

SeqsUpTo(S, n) == UNION {[1..k -> S] : k \in 0..n}

\* Family 2: a log in order with any marks: the inode page of inode 2
\* (unmarked, fsync-marked, fsync- and dentry-marked), its direct node, and
\* the fsync-marked direct node of inode 1; no index changes.
MarkPages ==
    {NodePage(2, FALSE, FALSE, NULL_ADDR, NullIdx),
     NodePage(2, TRUE, FALSE, NULL_ADDR, NullIdx),
     NodePage(2, TRUE, TRUE, NULL_ADDR, NullIdx),
     NodePage(DNid(2), FALSE, FALSE, NULL_ADDR, NullIdx),
     NodePage(DNid(2), TRUE, FALSE, NULL_ADDR, NullIdx),
     NodePage(DNid(1), TRUE, FALSE, NULL_ADDR, NullIdx)}

MarkDisks == {LinearDisk(ps) : ps \in SeqsUpTo(MarkPages, MaxChain)}

\* Family 3: a log in order of fsync-marked nodes that change data indices:
\* an index kept or moved, truncated, reserved, duplicated in the page, or
\* outside the main area.
IndexPatterns ==
    {<<D1, NULL_ADDR>>, <<D2, D1>>, <<NULL_ADDR, D2>>, <<NEW_ADDR, MAX_BLKADDR>>,
     <<D2, D2>>, <<NEW_ADDR, NULL_ADDR>>}

DataPages ==
    {NodePage(n, TRUE, FALSE, NULL_ADDR, [s \in Slots |-> ad[s + 1]]) :
        n \in {1, DNid(1), 2}, ad \in IndexPatterns}

DataDisks == {LinearDisk(ps) : ps \in SeqsUpTo(DataPages, MaxChain - 1)}

\* Family 4: a checkpoint whose direct node of inode 1 holds, in slot 0, a
\* reserved index or an address outside the main area, and at most one
\* index-changing node after it.
OddIndices == {NEW_ADDR, MAX_BLKADDR}

OddFs(v) == [CheckpointFs(AllInos, 0) EXCEPT !.live[DNid(1)][0] = v]

OddDisks == {LinearDisk(ps) : ps \in SeqsUpTo(DataPages, 1)}

\* The NAT and the stale directory entry of family 2: the file inode 2 with
\* or without NAT entry, the parent directory without one, and a stale entry
\* of the file's name that resolves to an inode with or without NAT entry.
MarkFs ==
    {CheckpointFs(AllInos, 0)}
    \cup {CheckpointFs(AllInos \ {2}, st) : st \in {0, OldIno}}
    \cup {CheckpointFs({1, OldIno}, 0), CheckpointFs({1, DirIno}, OldIno)}

\* free: the free main-area blocks at the checkpoint, at least the blocks of
\* the node log; zoned and rdonly: the device and the mount.
Images ==
    {[disk |-> d, fs |-> CheckpointFs(AllInos, 0), free |-> f, zoned |-> z, rdonly |-> ro] :
        d \in ShapeDisks, f \in {MaxChain, MaxChain + 1}, z \in BOOLEAN, ro \in BOOLEAN}
    \cup {[disk |-> d, fs |-> CheckpointFs(AllInos, 0), free |-> MaxChain + 1,
           zoned |-> FALSE, rdonly |-> FALSE] : d \in DataDisks}
    \cup {[disk |-> d, fs |-> f, free |-> MaxChain + 1,
           zoned |-> FALSE, rdonly |-> FALSE] : d \in MarkDisks, f \in MarkFs}
    \cup {[disk |-> d, fs |-> OddFs(v), free |-> MaxChain + 1,
           zoned |-> FALSE, rdonly |-> FALSE] : d \in OddDisks, v \in OddIndices}

\* ------------------------------------------------------------------ state
VARIABLES
    disk,            \* the node log on disk: address -> node page
    free_blocks,     \* MAIN_SEGS * blocks_per_seg - valid_user_blocks
    zoned,           \* f3fs_sb_has_blkzoned
    fs,              \* NAT, node pages, SIT, SSA, inodes, directory
    sbi,             \* s_flags RDONLY bit and the SBI_* flags
    cp,              \* CP_RECOVERY checkpoints written
    wp_fixed,        \* write-pointer fixes done
    caches,          \* the NODE and META page caches
    irefs,           \* inode handles held (iget minus iput), per ino
    synced,          \* inos f3fs_inode_synced was called on
    pc,              \* position in f3fs_recover_fsync_data
    check_only,
    s_flags,         \* the saved RDONLY bit
    inode_list, tmp_inode_list, dir_list,
    blkaddr, loop_cnt,
    err, ret, need_writecp,
    cp_locked,       \* cp_global_sem held for writing
    retval,          \* what the last call returned
    reads,           \* the addresses discovery asked the page cache for, in order
    hist             \* what the current call has done so far

vars ==
    <<disk, free_blocks, zoned, fs, sbi, cp, wp_fixed, caches, irefs, synced,
      pc, check_only, s_flags, inode_list, tmp_inode_list, dir_list,
      blkaddr, loop_cnt, err, ret, need_writecp, cp_locked, retval, reads, hist>>

image == <<disk, free_blocks, zoned>>
lists == <<inode_list, tmp_inode_list, dir_list>>

NoHist ==
    [materialized |-> {}, opened |-> {}, io_err |-> FALSE, found |-> FALSE, table |-> <<>>,
     find_err |-> 0, repaired |-> FALSE, repair_err |-> 0, processed |-> <<>>,
     fixed |-> FALSE, fix_err |-> 0, wrote_cp |-> FALSE, cp_err |-> 0,
     bug_on |-> FALSE, lost |-> FALSE, retried |-> 0, prev |-> <<>>, locks |-> <<>>,
     fs0 |-> <<>>]

Init ==
    /\ \E im \in Images :
        /\ disk = im.disk
        /\ free_blocks = im.free
        /\ fs = im.fs
        /\ zoned = im.zoned
        /\ sbi = [rdonly |-> im.rdonly, por_doing |-> TRUE, is_recovered |-> FALSE,
                  quota_need_repair |-> FALSE]
    /\ cp = 0
    /\ wp_fixed = FALSE
    /\ caches = [node |-> "clean", meta |-> "clean"]
    /\ irefs = [i \in AllInos |-> 0]
    /\ synced = {}
    /\ pc = "idle"
    /\ check_only = FALSE
    /\ s_flags = FALSE
    /\ inode_list = <<>>
    /\ tmp_inode_list = <<>>
    /\ dir_list = <<>>
    /\ blkaddr = NULL_ADDR
    /\ loop_cnt = 0
    /\ err = 0
    /\ ret = 0
    /\ need_writecp = FALSE
    /\ cp_locked = FALSE
    /\ retval = 0
    /\ reads = <<>>
    /\ hist = NoHist

\* ------------------------------------------------------ the fsync-inode table
\* Variant of get_fsync_inode: the first entry, whatever its ino.
get_fsync_inode_first(head, ino) ==
    IF head # <<>> THEN 1 ELSE 0

\* get_fsync_inode: the index of the entry of ino in the list, 0 if none.
get_fsync_inode(head, ino) ==
    IF \E k \in 1..Len(head) : head[k].ino = ino
    THEN CHOOSE k \in 1..Len(head) :
            head[k].ino = ino /\ \A j \in 1..(k - 1) : head[j].ino # ino
    ELSE 0

\* f3fs_iget_retry: -ENOENT for an ino without a NAT entry; iofail is a read
\* error of the inode page.
f3fs_iget_retry(nat, ino, iofail) ==
    IF ino \notin nat THEN ENOENT
    ELSE IF iofail THEN EIO
    ELSE 0

\* Variant of add_fsync_inode: an inode that is not found gets an entry too.
add_fsync_inode_found(head, nat, ino, quota_inode, fault) ==
    LET e1 == f3fs_iget_retry(nat, ino, fault = "iget")
        e2 == IF fault = "dquot_initialize" THEN EIO
              ELSE IF quota_inode /\ fault = "dquot_alloc_inode" THEN EIO
              ELSE 0
    IN  IF e1 # 0 /\ e1 # ENOENT THEN [err |-> e1, head |-> head, got |-> FALSE]
        ELSE IF e2 # 0 THEN [err |-> e2, head |-> head, got |-> FALSE]
        ELSE [err |-> 0,
              head |-> Append(head, [ino |-> ino, blkaddr |-> 0, last_dentry |-> 0]),
              got |-> TRUE]

\* add_fsync_inode: the error, or 0 and the entry appended (blkaddr and
\* last_dentry zeroed by the allocation).
add_fsync_inode(head, nat, ino, quota_inode, fault) ==
    LET e1 == f3fs_iget_retry(nat, ino, fault = "iget")
        e2 == IF fault = "dquot_initialize" THEN EIO
              ELSE IF quota_inode /\ fault = "dquot_alloc_inode" THEN EIO
              ELSE 0
    IN  IF e1 # 0 THEN [err |-> e1, head |-> head, got |-> FALSE]
        ELSE IF e2 # 0 THEN [err |-> e2, head |-> head, got |-> FALSE]
        ELSE [err |-> 0,
              head |-> Append(head, [ino |-> ino, blkaddr |-> 0, last_dentry |-> 0]),
              got |-> TRUE]

\* ---------------------------------------------------------------- the call
\* f3fs_recover_fsync_data, entry to the start of discovery. A call follows
\* the mount, or a check-only call that did not fail (then it recovers).
Invoke(co) ==
    /\ \/ pc = "idle"
       \/ pc = "returned" /\ check_only /\ retval >= 0 /\ ~co
    /\ pc' = "find"
    /\ check_only' = co
    /\ s_flags' = sbi.rdonly
    /\ sbi' = [sbi EXCEPT !.rdonly = FALSE]
    /\ inode_list' = <<>>
    /\ tmp_inode_list' = <<>>
    /\ dir_list' = <<>>
    /\ cp_locked' = TRUE
    /\ err' = 0
    /\ ret' = 0
    /\ need_writecp' = FALSE
    /\ loop_cnt' = 0
    /\ blkaddr' = NEXT_FREE_BLKADDR
    /\ reads' = <<>>
    /\ hist' = [NoHist EXCEPT !.fs0 = fs,
                             !.prev = IF pc = "returned" THEN <<retval>> ELSE <<>>]
    /\ UNCHANGED <<image, fs, cp, wp_fixed, caches, irefs, synced, retval>>

\* ------------------------------------------------------------ discovery pass
FindFaults == {"none", "read", "recover_inode_page", "iget", "dquot_initialize",
               "dquot_alloc_inode"}

\* Variants of FindNext: the counter compared after the test, no test of
\* next == blkaddr, the bound taken one too small.
FindNext_late(page) ==
    IF loop_cnt + 1 > free_blocks \/ blkaddr = next_blkaddr_of_node(page)
    THEN /\ loop_cnt' = loop_cnt + 1
         /\ err' = EINVAL
         /\ blkaddr' = blkaddr
         /\ pc' = "found"
    ELSE /\ loop_cnt' = loop_cnt + 1
         /\ err' = 0
         /\ blkaddr' = next_blkaddr_of_node(page)
         /\ pc' = "find"

FindNext_noself(page) ==
    IF loop_cnt + 1 >= free_blocks
    THEN /\ loop_cnt' = loop_cnt + 1
         /\ err' = EINVAL
         /\ blkaddr' = blkaddr
         /\ pc' = "found"
    ELSE /\ loop_cnt' = loop_cnt + 1
         /\ err' = 0
         /\ blkaddr' = next_blkaddr_of_node(page)
         /\ pc' = "find"

FindNext_early(page) ==
    IF loop_cnt + 1 >= free_blocks - 1 \/ blkaddr = next_blkaddr_of_node(page)
    THEN /\ loop_cnt' = loop_cnt + 1
         /\ err' = EINVAL
         /\ blkaddr' = blkaddr
         /\ pc' = "found"
    ELSE /\ loop_cnt' = loop_cnt + 1
         /\ err' = 0
         /\ blkaddr' = next_blkaddr_of_node(page)
         /\ pc' = "find"

\* The end of one iteration of find_fsync_dnodes from the label next.
FindNext(page) ==
    IF loop_cnt + 1 >= free_blocks \/ blkaddr = next_blkaddr_of_node(page)
    THEN /\ loop_cnt' = loop_cnt + 1
         /\ err' = EINVAL
         /\ blkaddr' = blkaddr
         /\ pc' = "found"
    ELSE /\ loop_cnt' = loop_cnt + 1
         /\ err' = 0
         /\ blkaddr' = next_blkaddr_of_node(page)
         /\ pc' = "find"

FindBreak(e) ==
    /\ err' = e
    /\ pc' = "found"
    /\ UNCHANGED <<blkaddr, loop_cnt>>

\* Variant of record_blkaddr: the block address is not recorded.
record_blkaddr_never(entry, baddr) == entry

\* entry->blkaddr = blkaddr: the last block of the inode seen so far.
record_blkaddr(entry, baddr) == [entry EXCEPT !.blkaddr = baddr]

\* One iteration of the loop of find_fsync_dnodes.
FindStep(fault) ==
    /\ pc = "find"
    /\ UNCHANGED <<image, sbi, cp, wp_fixed, synced, check_only, s_flags,
                   tmp_inode_list, dir_list, ret, need_writecp, cp_locked, retval>>
    /\ IF ~f3fs_is_valid_blkaddr(blkaddr)
       THEN /\ FindBreak(0)
            /\ UNCHANGED <<fs, caches, irefs, inode_list, reads, hist>>
       ELSE IF fault = "read"
       THEN /\ FindBreak(EIO)
            /\ reads' = Append(reads, blkaddr)
            /\ hist' = [hist EXCEPT !.io_err = TRUE]
            /\ UNCHANGED <<fs, caches, irefs, inode_list>>
       ELSE
        LET page == disk[blkaddr]
            ino == ino_of_node(page)
            k == get_fsync_inode(inode_list, ino)
            quota_inode == ~check_only /\ IS_INODE(page) /\ is_dent_dnode(page)
            rip_fail == quota_inode /\ fault = "recover_inode_page"
            nat1 == IF quota_inode THEN fs.nat \cup {ino} ELSE fs.nat
            added == add_fsync_inode(inode_list, nat1, ino, quota_inode, fault)
            kk == IF k # 0 THEN k ELSE Len(added.head)
            head1 == IF k # 0 THEN inode_list ELSE added.head
            head2 == [head1 EXCEPT ![kk] = record_blkaddr(@, blkaddr),
                                   ![kk].last_dentry =
                                        IF IS_INODE(page) /\ is_dent_dnode(page)
                                        THEN blkaddr ELSE @]
        IN  /\ reads' = Append(reads, blkaddr)
            /\ caches' = [caches EXCEPT !.meta = "used"]
            /\ IF ~is_recoverable_dnode(page)
               THEN /\ FindBreak(0)
                    /\ UNCHANGED <<fs, irefs, inode_list, hist>>
               ELSE IF ~is_fsync_dnode(page)
               THEN /\ FindNext(page)
                    /\ UNCHANGED <<fs, irefs, inode_list, hist>>
               ELSE IF k # 0
               THEN /\ inode_list' = head2
                    /\ FindNext(page)
                    /\ UNCHANGED <<fs, irefs, hist>>
               ELSE IF rip_fail
               THEN /\ FindBreak(ENOMEM)
                    /\ hist' = [hist EXCEPT !.io_err = TRUE]
                    /\ UNCHANGED <<fs, irefs, inode_list>>
               ELSE
                    /\ fs' = [fs EXCEPT !.nat = nat1]
                    /\ hist' = [hist EXCEPT
                            !.materialized = IF quota_inode THEN @ \cup {ino} ELSE @,
                            !.opened = IF added.got THEN @ \cup {ino} ELSE @,
                            !.io_err = added.err \notin {0, ENOENT}]
                    /\ IF added.got
                       THEN /\ inode_list' = head2
                            /\ irefs' = [irefs EXCEPT ![ino] = @ + 1]
                            /\ FindNext(page)
                       ELSE IF added.err = ENOENT
                       THEN /\ FindNext(page)
                            /\ UNCHANGED <<irefs, inode_list>>
                       ELSE /\ FindBreak(added.err)
                            /\ UNCHANGED <<irefs, inode_list>>

\* ------------------------------------------------- node-layer primitives
\* f3fs_truncate_data_blocks_range(dn, 1): the index is cleared and its block
\* invalidated in the SIT.
f3fs_truncate_data_blocks_range(st, nid, ofs) ==
    LET a == st.live[nid][ofs]
    IN  IF a = NULL_ADDR THEN st
        ELSE [st EXCEPT !.live[nid][ofs] = NULL_ADDR,
                        !.valid = IF a \in DataAddrs THEN [@ EXCEPT ![a] = FALSE] ELSE @]

\* f3fs_reserve_new_block(dn): the index becomes NEW_ADDR.
f3fs_reserve_new_block(st, nid, ofs) ==
    [st EXCEPT !.live[nid][ofs] = NEW_ADDR]

\* f3fs_replace_block(sbi, dn, src, dest, version, false, false): the summary
\* of dest names the dnode slot, dest becomes valid, src invalid, and the
\* index points at dest.
f3fs_replace_block(st, nid, ofs, src, dest) ==
    LET v1 == [st.valid EXCEPT ![dest] = TRUE]
        v2 == IF src \in DataAddrs THEN [v1 EXCEPT ![src] = FALSE] ELSE v1
    IN  [st EXCEPT !.sum[dest] = [nid |-> nid, ofs_in_node |-> ofs],
                   !.valid = v2,
                   !.live[nid][ofs] = dest]

\* ------------------------------------------------------ collision resolver
\* check_index_in_prev_nodes(sbi, blkaddr, dn), dn = (ino, nid) of the dnode
\* under repair. The result is the error, the state and the lock operations.
truncate_out(st, baddr, nid, ofs) ==
    IF st.live[nid][ofs] = baddr
    THEN f3fs_truncate_data_blocks_range(st, nid, ofs)
    ELSE st

\* dn->inode_page_locked after f3fs_get_dnode_of_data(&dn, start, ALLOC_NODE):
\* the inode page stays locked when it is itself the node of the index.
inode_page_locked(dn_ino, dn_nid) == dn_nid = dn_ino

\* The inode-page locks of one call: the inode under repair, whether its
\* page was locked at entry, the sets of inodes whose page is locked after
\* each lock operation, and whether a page was locked that was held already.
LockTrace(dn_ino, locked, sets, again) ==
    [ino |-> dn_ino, locked |-> locked, held |-> sets, relock |-> again]

\* The locks held at entry.
held_at_entry(dn_ino, locked) == IF locked THEN {dn_ino} ELSE {}

\* f3fs_get_node_page(sbi, nid) returns the node page locked and
\* f3fs_put_page(node_page, 1) unlocks it; an inode page when nid is an ino.
node_page_locks(h, nid) ==
    IF nid = ino_of_nid(nid) THEN <<h \cup {nid}, h>> ELSE <<>>

\* Variant of unlock_current: the page is unlocked for a foreign inode.
unlock_current_foreign(h, ino, dn_ino, locked) ==
    IF ino # dn_ino /\ locked THEN h \ {dn_ino} ELSE h

\* if (ino == dn->inode->i_ino && dn->inode_page_locked) unlock_page.
unlock_current(h, ino, dn_ino, locked) ==
    IF ino = dn_ino /\ locked THEN h \ {dn_ino} ELSE h

\* out: else if (dn->inode_page_locked) lock_page(dn->inode_page).
relock_current(h, ino, dn_ino, locked) ==
    IF ino # dn_ino THEN h
    ELSE IF locked THEN h \cup {dn_ino} ELSE h

\* f3fs_get_dnode_of_data(&tdn, bidx, LOOKUP_NODE) locks the inode page of
\* tdn.inode, and f3fs_put_dnode(&tdn) unlocks what is still locked.
dnode_locks(h, ino) == <<h \cup {ino}, h>>

\* The lock operations of the slow path, for the node nid of inode ino; the
\* lookup is reached when no earlier call failed, and locks when it succeeds.
slow_path_locks(dn_ino, locked, nid, ino, reached, looked) ==
    LET h0 == held_at_entry(dn_ino, locked)
        h1 == unlock_current(h0, ino, dn_ino, locked)
        h2 == relock_current(h1, ino, dn_ino, locked)
    IN  LockTrace(dn_ino, locked,
            <<h0>> \o node_page_locks(h0, nid)
                \o (IF reached
                    THEN <<h1>> \o (IF looked THEN dnode_locks(h1, ino) ELSE <<>>)
                              \o <<h2>>
                    ELSE <<>>),
            \/ nid = ino_of_nid(nid) /\ nid \in h0
            \/ reached /\ looked /\ ino \in h1)

\* The lock operations of the fast path through the inode page (lines 504-510
\* and 570-571).
fast_path_locks(dn_ino, locked) ==
    LET h0 == held_at_entry(dn_ino, locked)
    IN  LockTrace(dn_ino, locked,
            IF locked THEN <<h0>> ELSE <<h0, h0 \cup {dn_ino}, h0>>, FALSE)

\* No lock operation.
no_locks(dn_ino, locked) ==
    LockTrace(dn_ino, locked, <<held_at_entry(dn_ino, locked)>>, FALSE)

check_index_in_prev_nodes(st, baddr, dn_ino, dn_nid, fault) ==
    LET locked == inode_page_locked(dn_ino, dn_nid)
    IN
    IF ~st.valid[baddr]
    THEN [err |-> 0, st |-> st, locks |-> no_locks(dn_ino, locked)]
    ELSE IF fault = "get_sum_page"
    THEN [err |-> EIO, st |-> st, locks |-> no_locks(dn_ino, locked)]
    ELSE
      LET sum == st.sum[baddr]
          nid == sum.nid
          ino == ino_of_nid(nid)
          stopped == slow_path_locks(dn_ino, locked, nid, ino, FALSE, FALSE)
      IN  IF dn_ino = nid
          THEN [err |-> 0, st |-> truncate_out(st, baddr, nid, sum.ofs_in_node),
                locks |-> fast_path_locks(dn_ino, locked)]
          ELSE IF dn_nid = nid
          THEN [err |-> 0, st |-> truncate_out(st, baddr, dn_nid, sum.ofs_in_node),
                locks |-> no_locks(dn_ino, locked)]
          ELSE IF fault = "get_node_page"
          THEN [err |-> EIO, st |-> st, locks |-> no_locks(dn_ino, locked)]
          ELSE IF ino # dn_ino /\ f3fs_iget_retry(st.nat, ino, fault = "iget_prev") # 0
          THEN [err |-> f3fs_iget_retry(st.nat, ino, fault = "iget_prev"), st |-> st,
                locks |-> stopped]
          ELSE IF ino # dn_ino /\ fault = "dquot_prev"
          THEN [err |-> EIO, st |-> st, locks |-> stopped]
          ELSE IF fault = "lookup_prev"
          THEN [err |-> 0, st |-> st,
                locks |-> slow_path_locks(dn_ino, locked, nid, ino, TRUE, FALSE)]
          ELSE [err |-> 0, st |-> truncate_out(st, baddr, nid, sum.ofs_in_node),
                locks |-> slow_path_locks(dn_ino, locked, nid, ino, TRUE, TRUE)]

\* ------------------------------------------------------- data-index repair
\* Variant of corrupt_index: only the live index is checked.
corrupt_index_src(src, dest) ==
    __is_valid_data_blkaddr(src) /\ ~f3fs_is_valid_blkaddr(src)

\* The two sanity checks at the head of the slot loop.
corrupt_index(src, dest) ==
    \/ __is_valid_data_blkaddr(src) /\ ~f3fs_is_valid_blkaddr(src)
    \/ __is_valid_data_blkaddr(dest) /\ ~f3fs_is_valid_blkaddr(dest)

\* Variant of reserve_slot: the live index is not truncated first.
reserve_slot_kept(st, nid, ofs, failed) ==
    IF failed THEN st ELSE f3fs_reserve_new_block(st, nid, ofs)

\* dest == NEW_ADDR: the live index is truncated and a block reserved; the
\* result of the reservation is not looked at.
reserve_slot(st, nid, ofs, failed) ==
    LET t == f3fs_truncate_data_blocks_range(st, nid, ofs)
    IN  IF failed THEN t ELSE f3fs_reserve_new_block(t, nid, ofs)

\* The loop of do_recover_data over the slots of the node, from slot ofs.
RECURSIVE recover_indices(_, _, _, _, _, _)
recover_indices(st, ino, nid, page, ofs, fault) ==
    IF ofs \notin Slots THEN [err |-> 0, st |-> st, bug |-> FALSE, locks |-> <<>>]
    ELSE
      LET src == st.live[nid][ofs]
          dest == page.addr[ofs]
          start == f3fs_start_bidx_of_node(ofs_of_node(page)) + ofs
          sized == IF st.i_size[ino] <= start
                   THEN [st EXCEPT !.i_size[ino] = start + 1] ELSE st
      IN  IF corrupt_index(src, dest)
          THEN [err |-> EFSCORRUPTED, st |-> st, bug |-> FALSE, locks |-> <<>>]
          ELSE IF src = dest
          THEN recover_indices(st, ino, nid, page, ofs + 1, fault)
          ELSE IF dest = NULL_ADDR
          THEN recover_indices(f3fs_truncate_data_blocks_range(st, nid, ofs),
                               ino, nid, page, ofs + 1, fault)
          ELSE IF dest = NEW_ADDR
          THEN recover_indices(reserve_slot(sized, nid, ofs, fault = "reserve"),
                               ino, nid, page, ofs + 1, fault)
          ELSE IF f3fs_is_valid_blkaddr(dest)
          THEN IF src = NULL_ADDR /\ fault = "reserve"
               THEN [err |-> ENOSPC, st |-> sized, bug |-> TRUE, locks |-> <<>>]
               ELSE
                LET r == IF src = NULL_ADDR
                         THEN f3fs_reserve_new_block(sized, nid, ofs) ELSE sized
                    c == check_index_in_prev_nodes(r, dest, ino, nid, fault)
                    rest == recover_indices(
                            f3fs_replace_block(c.st, nid, ofs, src, dest),
                            ino, nid, page, ofs + 1, fault)
                IN  IF c.err # 0
                    THEN [err |-> c.err, st |-> c.st, bug |-> FALSE,
                          locks |-> <<c.locks>>]
                    ELSE [rest EXCEPT !.locks = <<c.locks>> \o @]
          ELSE recover_indices(sized, ino, nid, page, ofs + 1, fault)

\* Variant of do_recover_data: the slot loop starts at the second slot.
do_recover_data_from1(st, ino, page, fault) ==
    IF IS_INODE(page) /\ fault = "recover_inline_xattr"
    THEN [err |-> EIO, st |-> st, bug |-> FALSE, locks |-> <<>>]
    ELSE IF fault = "recover_inline_data" THEN [err |-> EIO, st |-> st, bug |-> FALSE, locks |-> <<>>]
    ELSE IF fault = "get_dnode_of_data" THEN [err |-> EIO, st |-> st, bug |-> FALSE, locks |-> <<>>]
    ELSE IF fault = "get_node_info" THEN [err |-> EIO, st |-> st, bug |-> FALSE, locks |-> <<>>]
    ELSE LET nid == IF ofs_of_node(page) = 0 THEN ino ELSE DNid(ino)
         IN  recover_indices(st, ino, nid, page, 1, fault)

\* do_recover_data(sbi, inode, page). The live node of the page is the node
\* of the inode at the page's node offset.
do_recover_data(st, ino, page, fault) ==
    IF IS_INODE(page) /\ fault = "recover_inline_xattr"
    THEN [err |-> EIO, st |-> st, bug |-> FALSE, locks |-> <<>>]
    ELSE IF fault = "recover_inline_data" THEN [err |-> EIO, st |-> st, bug |-> FALSE, locks |-> <<>>]
    ELSE IF fault = "get_dnode_of_data" THEN [err |-> EIO, st |-> st, bug |-> FALSE, locks |-> <<>>]
    ELSE IF fault = "get_node_info" THEN [err |-> EIO, st |-> st, bug |-> FALSE, locks |-> <<>>]
    ELSE LET nid == IF ofs_of_node(page) = 0 THEN ino ELSE DNid(ino)
         IN  recover_indices(st, ino, nid, page, 0, fault)

\* ---------------------------------------------------- inode reconstruction
\* Variant of recover_inode: a failed quota transfer sets the flag and the
\* remaining fields are recovered.
recover_inode_continue(st, ino, page, fault) ==
    LET m == [st EXCEPT !.i_mode[ino] = page.mode]
    IN  IF fault = "transfer_project_quota"
        THEN [err |-> EIO, st |-> m, quota_need_repair |-> FALSE]
        ELSE [err |-> 0, st |-> [m EXCEPT !.i_size[ino] = page.size],
              quota_need_repair |-> fault = "dquot_transfer"]

\* recover_inode(inode, page): the mode is written first; a failed quota
\* transfer sets SBI_QUOTA_NEED_REPAIR and is returned.
recover_inode(st, ino, page, fault) ==
    LET m == [st EXCEPT !.i_mode[ino] = page.mode]
    IN  IF fault = "dquot_transfer"
        THEN [err |-> EIO, st |-> m, quota_need_repair |-> TRUE]
        ELSE IF fault = "transfer_project_quota"
        THEN [err |-> EIO, st |-> m, quota_need_repair |-> FALSE]
        ELSE [err |-> 0, st |-> [m EXCEPT !.i_size[ino] = page.size],
              quota_need_repair |-> FALSE]

\* ------------------------------------------------------- directory repair
\* Variant of dentry_retry: the colliding entry is deleted before its inode
\* is opened and the orphan slot acquired.
RECURSIVE dentry_retry_early(_, _, _, _, _)
dentry_retry_early(st, ino, fault, oom, tries) ==
    LET de == st.dir[ino]
        einode == f3fs_iget_retry(st.nat, de, fault = "iget_einode")
        deleted == [st EXCEPT !.dir[ino] = 0, !.orphans = @ + 1]
        gone == [st EXCEPT !.dir[ino] = 0]
        out(e, t) == [err |-> e, st |-> t, tries |-> tries]
    IN  IF de = ino THEN out(0, st)
        ELSE IF de # 0
        THEN IF einode = ENOENT THEN out(EEXIST, gone)
             ELSE IF einode # 0 THEN out(einode, gone)
             ELSE IF fault = "dquot_einode" THEN out(EIO, gone)
             ELSE IF fault = "acquire_orphan_inode" THEN out(ENOSPC, gone)
             ELSE dentry_retry_early(deleted, ino, fault, oom, tries + 1)
        ELSE IF oom > 0 THEN dentry_retry_early(st, ino, fault, oom - 1, tries + 1)
        ELSE IF fault = "add_dentry" THEN out(EIO, st)
        ELSE out(0, [st EXCEPT !.dir[ino] = ino])

\* The lookup/delete/add loop of recover_dentry from the label retry. The
\* parent is DirIno and the name is the file's own: st.dir[ino] is the ino
\* the name resolves to. oom: the times f3fs_add_dentry still fails with
\* -ENOMEM; tries: the jumps back to retry so far.
RECURSIVE dentry_retry(_, _, _, _, _)
dentry_retry(st, ino, fault, oom, tries) ==
    LET de == st.dir[ino]
        einode == f3fs_iget_retry(st.nat, de, fault = "iget_einode")
        deleted == [st EXCEPT !.dir[ino] = 0, !.orphans = @ + 1]
        out(e, t) == [err |-> e, st |-> t, tries |-> tries]
    IN  IF de = ino THEN out(0, st)
        ELSE IF de # 0
        THEN IF einode = ENOENT THEN out(EEXIST, st)
             ELSE IF einode # 0 THEN out(einode, st)
             ELSE IF fault = "dquot_einode" THEN out(EIO, st)
             ELSE IF fault = "acquire_orphan_inode" THEN out(ENOSPC, st)
             ELSE dentry_retry(deleted, ino, fault, oom, tries + 1)
        ELSE IF oom > 0 THEN dentry_retry(st, ino, fault, oom - 1, tries + 1)
        ELSE IF fault = "add_dentry" THEN out(EIO, st)
        ELSE out(0, [st EXCEPT !.dir[ino] = ino])

\* recover_dentry(inode, ipage, dir_list).
recover_dentry(st, dlist, ino, fault, oom) ==
    LET k == get_fsync_inode(dlist, DirIno)
        added == IF k # 0 THEN [err |-> 0, head |-> dlist, got |-> FALSE]
                 ELSE add_fsync_inode(dlist, st.nat, DirIno, FALSE,
                                      IF fault = "iget_dir" THEN "iget" ELSE "none")
        loop == dentry_retry(st, ino, fault, oom, 0)
        fail(e) == [err |-> e, st |-> st, dlist |-> added.head, got |-> added.got,
                    tries |-> 0]
    IN  IF added.err # 0 THEN fail(added.err)
        ELSE IF fault = "init_recovered_filename" THEN fail(EINVAL)
        ELSE [err |-> loop.err, st |-> loop.st, dlist |-> added.head,
              got |-> added.got, tries |-> loop.tries]

\* --------------------------------------------------------------- repair pass
RepairFaults ==
    {"none", "read", "dquot_transfer", "transfer_project_quota", "iget_dir",
     "init_recovered_filename", "iget_einode", "dquot_einode",
     "acquire_orphan_inode", "add_dentry", "recover_inline_xattr",
     "recover_inline_data", "get_dnode_of_data", "get_node_info", "reserve",
     "get_sum_page", "get_node_page", "iget_prev", "dquot_prev", "lookup_prev"}

\* step #1 done: the branch of f3fs_recover_fsync_data after find_fsync_dnodes.
AfterFind ==
    /\ pc = "found"
    /\ hist' = [hist EXCEPT !.found = TRUE, !.table = inode_list, !.find_err = err]
    /\ IF err # 0 \/ inode_list = <<>>
       THEN /\ pc' = "skip"
            /\ UNCHANGED <<ret, need_writecp, blkaddr>>
       ELSE IF check_only
       THEN /\ pc' = "skip"
            /\ ret' = 1
            /\ UNCHANGED <<need_writecp, blkaddr>>
       ELSE /\ pc' = "recover"
            /\ need_writecp' = TRUE
            /\ blkaddr' = NEXT_FREE_BLKADDR
            /\ UNCHANGED ret
    /\ UNCHANGED <<image, fs, sbi, cp, wp_fixed, caches, irefs, synced, check_only,
                   s_flags, lists, loop_cnt, err, cp_locked, retval, reads>>

RecoverBreak(e) ==
    /\ err' = e
    /\ pc' = "recovered"
    /\ UNCHANGED blkaddr

\* Variant of last_block: no block is the entry's last.
last_block_never(entry, b) == FALSE

\* if (entry->blkaddr == blkaddr) list_move_tail(&entry->list, tmp_inode_list)
last_block(entry, b) == entry.blkaddr = b

\* One iteration of the loop of recover_data.
RecoverStep(fault, oom) ==
    /\ pc = "recover"
    /\ UNCHANGED <<image, cp, wp_fixed, synced, check_only, s_flags, loop_cnt,
                   ret, need_writecp, cp_locked, retval, reads>>
    /\ IF ~f3fs_is_valid_blkaddr(blkaddr)
       THEN /\ RecoverBreak(0)
            /\ UNCHANGED <<fs, sbi, caches, irefs, lists, hist>>
       ELSE IF fault = "read"
       THEN /\ RecoverBreak(EIO)
            /\ UNCHANGED <<fs, sbi, caches, irefs, lists, hist>>
       ELSE
        LET page == disk[blkaddr]
            ino == ino_of_node(page)
            k == get_fsync_inode(inode_list, ino)
            ri == IF IS_INODE(page) THEN recover_inode(fs, ino, page, fault)
                  ELSE [err |-> 0, st |-> fs, quota_need_repair |-> FALSE]
            rd == IF inode_list[k].last_dentry = blkaddr
                  THEN recover_dentry(ri.st, dir_list, ino, fault, oom)
                  ELSE [err |-> 0, st |-> ri.st, dlist |-> dir_list, got |-> FALSE,
                        tries |-> 0]
            dr == do_recover_data(rd.st, ino, page, fault)
            lost == /\ fault = "lookup_prev"
                    /\ dr.st # do_recover_data(rd.st, ino, page, "none").st
            moved == last_block(inode_list[k], blkaddr)
        IN  /\ caches' = [caches EXCEPT !.meta = "used", !.node = "dirty"]
            /\ IF ~is_recoverable_dnode(page)
               THEN /\ RecoverBreak(0)
                    /\ UNCHANGED <<fs, sbi, irefs, lists, hist>>
               ELSE IF k = 0
               THEN /\ err' = 0
                    /\ pc' = "recover"
                    /\ blkaddr' = next_blkaddr_of_node(page)
                    /\ UNCHANGED <<fs, sbi, irefs, lists, hist>>
               ELSE IF ri.err # 0
               THEN /\ RecoverBreak(ri.err)
                    /\ fs' = ri.st
                    /\ sbi' = [sbi EXCEPT !.quota_need_repair = @ \/ ri.quota_need_repair]
                    /\ UNCHANGED <<irefs, lists, hist>>
               ELSE
                    /\ UNCHANGED sbi
                    /\ dir_list' = rd.dlist
                    /\ irefs' = IF rd.got THEN [irefs EXCEPT ![DirIno] = @ + 1] ELSE irefs
                    /\ IF rd.err # 0
                       THEN /\ RecoverBreak(rd.err)
                            /\ fs' = rd.st
                            /\ hist' = [hist EXCEPT !.retried = rd.tries]
                            /\ UNCHANGED <<inode_list, tmp_inode_list>>
                       ELSE IF dr.err # 0
                       THEN /\ RecoverBreak(dr.err)
                            /\ fs' = dr.st
                            /\ hist' = [hist EXCEPT !.bug_on = @ \/ dr.bug,
                                                    !.retried = rd.tries,
                                                    !.lost = @ \/ lost,
                                                    !.locks = dr.locks]
                            /\ UNCHANGED <<inode_list, tmp_inode_list>>
                       ELSE /\ err' = 0
                            /\ pc' = "recover"
                            /\ blkaddr' = next_blkaddr_of_node(page)
                            /\ fs' = dr.st
                            /\ hist' = [hist EXCEPT !.processed = Append(@, blkaddr),
                                                    !.retried = rd.tries,
                                                    !.lost = @ \/ lost,
                                                    !.locks = dr.locks]
                            /\ inode_list' =
                                IF moved
                                THEN SubSeq(inode_list, 1, k - 1)
                                     \o SubSeq(inode_list, k + 1, Len(inode_list))
                                ELSE inode_list
                            /\ tmp_inode_list' =
                                IF moved THEN Append(tmp_inode_list, inode_list[k])
                                ELSE tmp_inode_list

\* step #2 done: the bug-on checks after recover_data.
AfterRecover ==
    /\ pc = "recovered"
    /\ pc' = "skip"
    /\ hist' = [hist EXCEPT !.repaired = TRUE, !.repair_err = err,
                            !.bug_on = @ \/ (err = 0 /\ inode_list # <<>>)]
    /\ UNCHANGED <<image, fs, sbi, cp, wp_fixed, caches, irefs, synced, check_only,
                   s_flags, lists, blkaddr, loop_cnt, err, ret, need_writecp,
                   cp_locked, retval, reads>>

\* ------------------------------------------------------------------ teardown
\* destroy_fsync_dnodes(head, drop): every entry's inode is marked synced if
\* drop, and its handle is put.
InosOf(head) == {head[k].ino : k \in 1..Len(head)}

destroy_irefs(refs, head) ==
    [i \in AllInos |-> refs[i] - Cardinality({k \in 1..Len(head) : head[k].ino = i})]

\* Variant of destroy_synced: no inode is marked synced.
destroy_synced_keep(sy, head, drop) == sy

destroy_synced(sy, head, drop) ==
    IF drop # 0 THEN sy \cup InosOf(head) ELSE sy

\* Variant of truncate_caches: the scratch pages only.
truncate_caches_scratch(c, e) == [c EXCEPT !.meta = "truncated"]

\* truncate_inode_pages_range(META_MAPPING(sbi), MAIN_BLKADDR.., -1), and on
\* error truncate_inode_pages_final of NODE_MAPPING and META_MAPPING.
truncate_caches(c, e) ==
    IF e # 0 THEN [node |-> "final", meta |-> "final"]
    ELSE [c EXCEPT !.meta = "truncated"]

\* Variant of fix_curseg_write_pointer: whatever the mode and the table.
fix_curseg_write_pointer_always(co, head) == TRUE

\* fix_curseg_write_pointer = !check_only || list_empty(&inode_list)
fix_curseg_write_pointer(co, head) == ~co \/ head = <<>>

\* From the label skip to the release of cp_global_sem (not included).
Teardown(wp_fail) ==
    /\ pc = "skip"
    /\ pc' = "unlock"
    /\ LET fix == /\ err = 0
                  /\ fix_curseg_write_pointer(check_only, inode_list)
                  /\ ~sbi.rdonly
                  /\ zoned
           err1 == IF fix THEN (IF wp_fail THEN EIO ELSE 0) ELSE err
       IN  /\ irefs' = destroy_irefs(destroy_irefs(irefs, inode_list), tmp_inode_list)
           /\ synced' = destroy_synced(destroy_synced(synced, inode_list, err),
                                       tmp_inode_list, err)
           /\ inode_list' = <<>>
           /\ tmp_inode_list' = <<>>
           /\ caches' = truncate_caches(caches, err)
           /\ err' = err1
           /\ ret' = IF fix THEN err1 ELSE ret
           /\ wp_fixed' = (wp_fixed \/ (fix /\ ~wp_fail))
           /\ hist' = [hist EXCEPT !.fixed = fix, !.fix_err = IF fix THEN err1 ELSE 0]
           /\ sbi' = IF err1 = 0 THEN [sbi EXCEPT !.por_doing = FALSE] ELSE sbi
    /\ UNCHANGED <<image, fs, cp, check_only, s_flags, dir_list, blkaddr, loop_cnt,
                   need_writecp, cp_locked, retval, reads>>

\* Variant of Unlock: cp_global_sem is not released.
Unlock_held ==
    /\ pc = "unlock"
    /\ pc' = "commit"
    /\ irefs' = destroy_irefs(irefs, dir_list)
    /\ synced' = destroy_synced(synced, dir_list, err)
    /\ dir_list' = <<>>
    /\ UNCHANGED <<image, fs, sbi, cp, wp_fixed, caches, check_only, s_flags,
                   inode_list, tmp_inode_list, blkaddr, loop_cnt, err, ret,
                   need_writecp, retval, reads, hist, cp_locked>>

\* f3fs_up_write(&sbi->cp_global_sem) and the destruction of the dir list.
Unlock ==
    /\ pc = "unlock"
    /\ pc' = "commit"
    /\ cp_locked' = FALSE
    /\ irefs' = destroy_irefs(irefs, dir_list)
    /\ synced' = destroy_synced(synced, dir_list, err)
    /\ dir_list' = <<>>
    /\ UNCHANGED <<image, fs, sbi, cp, wp_fixed, caches, check_only, s_flags,
                   inode_list, tmp_inode_list, blkaddr, loop_cnt, err, ret,
                   need_writecp, retval, reads, hist>>

\* Variant of write_checkpoint_due: whenever the repair pass was entered.
write_checkpoint_entered(nw, e) == nw

\* if (need_writecp) { ...; if (!err) f3fs_write_checkpoint(sbi, &cpc); }
write_checkpoint_due(nw, e) == nw /\ e = 0

\* Variant of restore_s_flags: RDONLY stays cleared.
restore_s_flags_cleared(saved) == FALSE

\* sbi->sb->s_flags = s_flags: the RDONLY bit at return.
restore_s_flags(saved) == saved

\* Variant of return_value: the error only.
return_value_err(r, e) == e

\* return ret ? ret : err
return_value(r, e) == IF r # 0 THEN r ELSE e

\* The final checkpoint, the restored s_flags and the return value.
Commit(cp_fail) ==
    /\ pc = "commit"
    /\ pc' = "returned"
    /\ LET write == write_checkpoint_due(need_writecp, err)
           err1 == IF write /\ cp_fail THEN EIO ELSE err
       IN  /\ err' = err1
           /\ cp' = IF write /\ ~cp_fail THEN cp + 1 ELSE cp
           /\ sbi' = [sbi EXCEPT !.is_recovered = @ \/ need_writecp,
                                 !.rdonly = restore_s_flags(s_flags)]
           /\ retval' = return_value(ret, err1)
           /\ hist' = [hist EXCEPT !.wrote_cp = write /\ ~cp_fail,
                                   !.cp_err = IF write THEN err1 ELSE 0]
    /\ UNCHANGED <<image, fs, wp_fixed, caches, irefs, synced, check_only, s_flags,
                   lists, blkaddr, loop_cnt, ret, need_writecp, cp_locked, reads>>

Next ==
    \/ \E co \in BOOLEAN : Invoke(co)
    \/ \E fault \in FindFaults : FindStep(fault)
    \/ AfterFind
    \/ \E fault \in RepairFaults, oom \in 0..MaxOom : RecoverStep(fault, oom)
    \/ AfterRecover
    \/ \E wp_fail \in BOOLEAN : Teardown(wp_fail)
    \/ Unlock
    \/ \E cp_fail \in BOOLEAN : Commit(cp_fail)

Spec == Init /\ [][Next]_vars

\* ============================================================ properties
\* The chain discovery walks: the blocks from the first free block of the
\* warm-node log along next_blkaddr, while they are recoverable.
RECURSIVE HasBackEdge(_, _, _)
HasBackEdge(d, a, seen) ==
    IF a \notin NodeAddrs THEN FALSE
    ELSE IF ~d[a].rec THEN FALSE
    ELSE IF d[a].next \in seen \cup {a} THEN TRUE
    ELSE HasBackEdge(d, d[a].next, seen \cup {a})

BackEdge == HasBackEdge(disk, NEXT_FREE_BLKADDR, {})

\* The chain ends at a next_blkaddr outside META_POR, with no back-edge and
\* no stale block before.
RECURSIVE EndsOutside(_, _, _)
EndsOutside(d, a, seen) ==
    IF ~f3fs_is_valid_blkaddr(a) THEN TRUE
    ELSE IF a \notin NodeAddrs \/ a \in seen THEN FALSE
    ELSE IF ~d[a].rec THEN FALSE
    ELSE EndsOutside(d, d[a].next, seen \cup {a})

CleanChain == EndsOutside(disk, NEXT_FREE_BLKADDR, {})
ChainBlocks == Reached(disk)

Range(q) == {q[k] : k \in 1..Len(q)}
Repeats(q) == \E j, k \in 1..Len(q) : j # k /\ q[j] = q[k]

\* The call has returned; real: not check-only.
Returned == pc = "returned"
RealSuccess == pc = "returned" /\ ~check_only /\ retval = 0

\* ----------------------------------------------------------------- C1
\* The k-th block the repair pass processed, and what it wrote to slot s.
ProcessedPage(k) == disk[hist.processed[k]]
Dest(k, s) == ProcessedPage(k).addr[s]

\* A later processed block rewrote the same node, or a later processed index
\* (a later block, or a later slot of the same block) claimed the same dest.
Superseded(k, s) ==
    \/ \E k2 \in (k + 1)..Len(hist.processed) :
            ProcessedPage(k2).nid = ProcessedPage(k).nid
    \/ \E k2 \in k..Len(hist.processed), s2 \in Slots :
            /\ k2 > k \/ s2 > s
            /\ Dest(k2, s2) = Dest(k, s)

\* An earlier processed block of another node wrote the same dest.
Shared(k, s) ==
    \E k1 \in 1..(k - 1), s1 \in Slots :
        /\ ProcessedPage(k1).nid # ProcessedPage(k).nid
        /\ Dest(k1, s1) = Dest(k, s)

MapsBack(nid, s, dest) == fs.sum[dest] = [nid |-> nid, ofs_in_node |-> s]

RoundTrip(nid, s, dest) ==
    /\ fs.live[nid][s] = dest
    /\ MapsBack(nid, s, dest)

\* C1 as claimed: after a successful recovery every index an fsync-marked
\* block of the chain wrote as dest is the live index, and the summary of
\* dest maps back to it.
C1_Claimed ==
    RealSuccess =>
        \A a \in Range(reads), s \in Slots :
            (/\ is_recoverable_dnode(disk[a])
             /\ is_fsync_dnode(disk[a])
             /\ disk[a].addr[s] \in DataAddrs)
            => RoundTrip(disk[a].nid, s, disk[a].addr[s])

\* C1: after a successful recovery (check_only = false, return 0), every
\* index that an fsync-marked block processed by the repair pass wrote as a
\* main-area address dest is the live index of that slot, unless a later
\* processed block rewrote the same node or a later processed index claimed
\* the same dest; and the summary of dest maps back to (nid, ofs_in_node)
\* when, in addition, no earlier processed block of another node wrote dest.
C1_RoundTrip ==
    RealSuccess =>
        \A k \in 1..Len(hist.processed), s \in Slots :
            (/\ is_fsync_dnode(ProcessedPage(k))
             /\ Dest(k, s) \in DataAddrs
             /\ ~Superseded(k, s))
            => /\ fs.live[ProcessedPage(k).nid][s] = Dest(k, s)
               /\ ~Shared(k, s) => MapsBack(ProcessedPage(k).nid, s, Dest(k, s))

\* With every lookup of the older index answered, the round trip holds for
\* every index that was not superseded, and dest is valid in the SIT.
C1_UnlessLookupLost ==
    (RealSuccess /\ ~hist.lost) =>
        \A k \in 1..Len(hist.processed), s \in Slots :
            (/\ is_fsync_dnode(ProcessedPage(k))
             /\ Dest(k, s) \in DataAddrs
             /\ ~Superseded(k, s))
            => /\ RoundTrip(ProcessedPage(k).nid, s, Dest(k, s))
               /\ fs.valid[Dest(k, s)]

\* A successful recovery that moved an index to a block another node held at
\* the checkpoint, and that processed a superseded index as well.
C1_Witness ==
    /\ RealSuccess
    /\ \E k \in 1..Len(hist.processed), s \in Slots :
        /\ is_fsync_dnode(ProcessedPage(k))
        /\ Dest(k, s) \in DataAddrs
        /\ ~Superseded(k, s)
        /\ hist.fs0.live[ProcessedPage(k).nid][s] # Dest(k, s)
        /\ hist.fs0.valid[Dest(k, s)]
    /\ \E k \in 1..Len(hist.processed), s \in Slots :
        /\ Dest(k, s) \in DataAddrs
        /\ Superseded(k, s)

\* ----------------------------------------------------------------- C2
\* No two distinct indices hold the same main-area block address.
SoleIndex(st) ==
    \A n1, n2 \in Nids, s1, s2 \in Slots :
        (st.live[n1][s1] \in DataAddrs /\ st.live[n1][s1] = st.live[n2][s2])
        => (n1 = n2 /\ s1 = s2)

\* C2: after the repair pass finishes without error no two distinct logical
\* indices point at the same main-area block address.
C2_Claimed ==
    (hist.repaired /\ hist.repair_err = 0) => SoleIndex(fs)

\* The collision invariant holds as long as no lookup of the older index
\* failed inside check_index_in_prev_nodes.
C2_UnlessLookupLost ==
    ~hist.lost => SoleIndex(fs)

\* The repair pass has finished without error after the resolver truncated an
\* index of another node.
C2_Truncated ==
    /\ hist.repaired /\ hist.repair_err = 0 /\ ~hist.lost
    /\ \E n \in Nids, s \in Slots :
        /\ hist.fs0.live[n][s] \in DataAddrs
        /\ fs.live[n][s] = NULL_ADDR
        /\ \E k \in 1..Len(hist.processed), s2 \in Slots :
            /\ ProcessedPage(k).nid # n
            /\ Dest(k, s2) = hist.fs0.live[n][s]
            /\ fs.live[ProcessedPage(k).nid][s2] = Dest(k, s2)

\* ----------------------------------------------------------------- C3
RecoveryNeeded == check_only /\ hist.find_err = 0 /\ hist.table # <<>>
AnyError ==
    hist.find_err # 0 \/ hist.repair_err # 0 \/ hist.fix_err # 0 \/ hist.cp_err # 0

\* C3: f3fs_recover_fsync_data returns 1 exactly when check_only is true and
\* discovery ended without error with a non-empty table; 0 exactly when that
\* is not the case and discovery, repair, the write-pointer fix and the
\* checkpoint reported no error; a negative error code otherwise.
C3_ReturnValue ==
    Returned =>
        /\ retval = 1 <=> RecoveryNeeded
        /\ retval > 0 => retval = 1
        /\ retval = 0 <=> (~RecoveryNeeded /\ ~AnyError)
        /\ AnyError => retval < 0

\* A check-only call that returned 1.
C3_Witness ==
    Returned /\ retval = 1 /\ RecoveryNeeded /\ ~AnyError

C3_WitnessError ==
    Returned /\ retval < 0 /\ hist.fix_err # 0

\* ----------------------------------------------------------------- C4
\* What no check-only call does.
CheckOnlyFrame ==
    /\ hist.materialized = {}
    /\ ~hist.repaired
    /\ hist.processed = <<>>
    /\ ~hist.wrote_cp
    /\ ~need_writecp
    /\ cp = 0
    /\ ~sbi.is_recovered
    /\ fs = hist.fs0

\* C4 as claimed: a check-only call never runs the write-pointer fix either.
C4_Claimed ==
    check_only => (CheckOnlyFrame /\ ~hist.fixed /\ ~wp_fixed)

\* C4: a call with check_only = true never materializes an inode page, never
\* runs the repair pass, never writes a checkpoint or sets IS_RECOVERED, and
\* leaves the NAT, the nodes, the SIT, the summaries and the directory as they
\* were; it runs the zoned write-pointer fix only when discovery ended without
\* error with an empty table on a zoned device.
C4_CheckOnlyFrame ==
    check_only =>
        /\ CheckOnlyFrame
        /\ hist.fixed => (hist.find_err = 0 /\ hist.table = <<>> /\ zoned)
        /\ wp_fixed => hist.fixed

\* A check-only call that found fsync-marked blocks and returned 1.
C4_Witness ==
    Returned /\ check_only /\ retval = 1 /\ ~hist.fixed /\ zoned

\* A check-only call that ran the write-pointer fix.
C4_WitnessFix ==
    Returned /\ check_only /\ hist.fixed /\ wp_fixed

\* ----------------------------------------------------------------- C5
\* The walked chain holds a recoverable fsync-marked node block.
FsyncOnChain ==
    \E a \in Range(reads) : is_recoverable_dnode(disk[a]) /\ is_fsync_dnode(disk[a])

\* C5: a check-only call whose discovery ends without error on a chain with
\* a recoverable fsync-marked block returns 1; the call with check_only =
\* false that follows a check-only answer of 1 finds a non-empty table and
\* runs the repair pass, unless its discovery fails; and the call that
\* follows a check-only answer of 0 recovers nothing.
C5_Claimed ==
    /\ (Returned /\ check_only /\ hist.find_err = 0 /\ FsyncOnChain) => retval = 1
    /\ (Returned /\ ~check_only /\ hist.prev = <<1>> /\ hist.find_err = 0)
            => (hist.table # <<>> /\ hist.repaired)
    /\ (Returned /\ ~check_only /\ hist.prev = <<0>>)
            => (hist.table = <<>> /\ ~hist.repaired /\ ~hist.wrote_cp)

\* What the check-only answer does guarantee: an answer of 1 is followed by
\* a repair, unless the discovery of the real call fails.
C5_OneMeansRepair ==
    (Returned /\ ~check_only /\ hist.prev = <<1>> /\ hist.find_err = 0)
        => (hist.table # <<>> /\ hist.repaired)

\* A check-only answer of 0 followed by a call that recovered an inode.
C5_Missed ==
    /\ Returned /\ ~check_only /\ hist.prev = <<0>> /\ retval = 0
    /\ hist.materialized # {} /\ hist.processed # <<>> /\ hist.wrote_cp

\* ----------------------------------------------------------------- C6
\* C6: when a call with check_only = false finds a non-empty table and
\* returns 0, a CP_RECOVERY checkpoint has been written and IS_RECOVERED is
\* set; when discovery, repair or the write-pointer fix fails, or the table
\* is empty, no checkpoint is written.
C6_FinalCheckpoint ==
    Returned =>
        /\ (~check_only /\ hist.table # <<>> /\ retval = 0)
                => (hist.wrote_cp /\ cp = 1 /\ sbi.is_recovered)
        /\ (hist.find_err # 0 \/ hist.repair_err # 0 \/ hist.fix_err # 0
            \/ hist.table = <<>>)
                => (~hist.wrote_cp /\ cp = 0)

\* A successful recovery that wrote its checkpoint.
C6_Witness ==
    RealSuccess /\ hist.table # <<>> /\ hist.wrote_cp /\ cp = 1 /\ sbi.is_recovered

\* A recovery whose repair pass failed: no checkpoint.
C6_WitnessFailed ==
    Returned /\ ~check_only /\ hist.repair_err # 0 /\ cp = 0

\* ------------------------------------------------------------- C7 - C10

\* C7 as claimed: on a chain with a back-edge discovery returns -EINVAL
\* after at most F iterations.
C7_Claimed ==
    (pc = "found" /\ BackEdge) => (err = EINVAL /\ Len(reads) <= free_blocks)

\* C7: on a chain with a back-edge discovery never returns success and reads
\* at most F pages; it returns -EINVAL unless a page read, the inode-page
\* materialization or an inode open failed first.
C7_LoopAborts ==
    /\ Len(reads) <= free_blocks
    /\ (pc = "found" /\ BackEdge) =>
            /\ err # 0
            /\ ~hist.io_err => err = EINVAL

C7_Witness ==
    /\ pc = "found" /\ BackEdge /\ err = EINVAL /\ ~hist.io_err
    /\ Len(reads) = free_blocks /\ Repeats(reads)

\* C8 as claimed: discovery reads no block address twice.
C8_Claimed == ~Repeats(reads)

\* C8: discovery never reads the same address twice in a row and reads at
\* most F pages; an address is read again only on a chain with a back-edge,
\* and then discovery ends with an error.
C8_BoundedRevisit ==
    /\ Len(reads) <= free_blocks
    /\ \A k \in 1..(Len(reads) - 1) : reads[k] # reads[k + 1]
    /\ Repeats(reads) => BackEdge
    /\ (Repeats(reads) /\ pc \notin {"find"}) => (err # 0 /\ ~hist.repaired)

C8_Witness ==
    /\ pc = "found" /\ Repeats(reads) /\ err = EINVAL

\* C9 as claimed: on an acyclic chain of recoverable blocks that ends outside
\* META_POR discovery returns 0, whatever the length (even when every page
\* read and inode open succeeds).
C9_Claimed ==
    (pc = "found" /\ CleanChain /\ ~hist.io_err) => err = 0

\* C9: on an acyclic chain of recoverable blocks that ends outside META_POR
\* and has fewer than F blocks, discovery returns 0 right after the last
\* block, unless a page read or an inode open failed.
C9_CleanEnd ==
    (pc = "found" /\ CleanChain /\ Cardinality(ChainBlocks) < free_blocks
        /\ ~hist.io_err) =>
            /\ err = 0
            /\ Range(reads) = ChainBlocks
            /\ Len(reads) = Cardinality(ChainBlocks)
            /\ ~f3fs_is_valid_blkaddr(blkaddr)

C9_Witness ==
    /\ pc = "found" /\ CleanChain /\ err = 0 /\ ~hist.io_err
    /\ Cardinality(ChainBlocks) = MaxChain
    /\ Cardinality(ChainBlocks) = free_blocks - 1

\* The positions in the walk of the fsync-marked recoverable blocks of ino.
FsyncPos(ino) ==
    {k \in 1..Len(reads) :
        /\ is_recoverable_dnode(disk[reads[k]])
        /\ is_fsync_dnode(disk[reads[k]])
        /\ ino_of_node(disk[reads[k]]) = ino}

\* The inode of ino can be opened: it had a NAT entry at the checkpoint, or
\* (not check-only) an fsync- and dentry-marked inode page of it is walked.
Openable(ino) ==
    \/ ino \in hist.fs0.nat
    \/ /\ ~check_only
       /\ \E k \in FsyncPos(ino) :
            IS_INODE(disk[reads[k]]) /\ is_dent_dnode(disk[reads[k]])

Max(S) == CHOOSE x \in S : \A y \in S : y <= x

\* C10: when discovery returns without error the table holds exactly one
\* entry for each ino with an fsync-marked recoverable block on the walked
\* chain whose inode can be opened, and the entry's blkaddr is the address of
\* the last fsync-marked block of that ino.
C10_TableContents ==
    (pc = "found" /\ err = 0) =>
        /\ InosOf(inode_list) = {i \in Inos : FsyncPos(i) # {} /\ Openable(i)}
        /\ \A j, k \in 1..Len(inode_list) :
                inode_list[j].ino = inode_list[k].ino => j = k
        /\ \A k \in 1..Len(inode_list) :
                inode_list[k].blkaddr = reads[Max(FsyncPos(inode_list[k].ino))]

\* Two entries, one of an inode materialized from its inode page, one whose
\* blkaddr moved on from its first fsync-marked block; and an fsync-marked
\* block skipped because its inode was not in the NAT.
C10_Witness ==
    /\ pc = "found" /\ err = 0
    /\ Len(inode_list) = 2
    /\ hist.materialized # {}
    /\ \E k \in 1..Len(inode_list) : Cardinality(FsyncPos(inode_list[k].ino)) > 1

C10_WitnessSkipped ==
    /\ pc = "found" /\ err = 0
    /\ \E i \in Inos : FsyncPos(i) # {} /\ i \notin InosOf(inode_list)

\* ---------------------------------------------------------------- C11
\* The repair pass is at a recoverable block of an inode of the table.
AtTablePage ==
    /\ pc = "recover"
    /\ f3fs_is_valid_blkaddr(blkaddr)
    /\ is_recoverable_dnode(disk[blkaddr])
    /\ get_fsync_inode(inode_list, ino_of_node(disk[blkaddr])) # 0

\* The step processed the block to its end without error.
PageDone == AtTablePage /\ hist'.processed = Append(hist.processed, blkaddr)

LiveNid(page) == IF ofs_of_node(page) = 0 THEN ino_of_node(page) ELSE DNid(ino_of_node(page))
LiveSrc(page, s) == fs.live[LiveNid(page)][s]

Accepted(a) == a \in {NULL_ADDR, NEW_ADDR} \/ f3fs_is_valid_blkaddr(a)

\* No step writes an index that is neither a sentinel nor META_POR-valid.
WritesAccepted ==
    \A n \in Nids, s \in Slots :
        fs'.live[n][s] # fs.live[n][s] => Accepted(fs'.live[n][s])

\* C11 as claimed: a block is processed to its end only if every dest is a
\* sentinel or META_POR-valid and every live src is null or META_POR-valid.
C11_Claimed ==
    [][/\ WritesAccepted
       /\ PageDone => \A s \in Slots :
            /\ Accepted(disk[blkaddr].addr[s])
            /\ LiveSrc(disk[blkaddr], s) = NULL_ADDR
               \/ f3fs_is_valid_blkaddr(LiveSrc(disk[blkaddr], s))]_vars

\* C11: recovery never writes an index that is neither NULL_ADDR, NEW_ADDR
\* nor accepted by META_POR; a node page with a dest, or a live src, that is
\* neither NULL_ADDR nor NEW_ADDR and is outside META_POR is not processed to
\* its end: do_recover_data returns -EFSCORRUPTED for it and the repair pass
\* stops with an error. A live src of NEW_ADDR is replaced like any other.
C11_MetaPorOnly ==
    [][/\ WritesAccepted
       /\ PageDone => \A s \in Slots :
            /\ Accepted(disk[blkaddr].addr[s])
            /\ Accepted(LiveSrc(disk[blkaddr], s))
       /\ (AtTablePage /\ \E s \in Slots :
                \/ ~Accepted(disk[blkaddr].addr[s])
                \/ ~Accepted(LiveSrc(disk[blkaddr], s)))
          => /\ do_recover_data(fs, ino_of_node(disk[blkaddr]), disk[blkaddr],
                                "none").err = EFSCORRUPTED
             /\ pc' = "recovered"
             /\ err' # 0]_vars

\* The repair pass stopped with the corruption error at a page with a dest
\* outside META_POR, after an earlier page was applied.
C11_Witness ==
    /\ pc = "recovered" /\ err = EFSCORRUPTED
    /\ hist.processed # <<>>
    /\ \E s \in Slots : ~Accepted(disk[blkaddr].addr[s])

\* The same for a live src outside META_POR.
C11_WitnessSrc ==
    /\ pc = "recovered" /\ err = EFSCORRUPTED
    /\ \E s \in Slots : ~Accepted(LiveSrc(disk[blkaddr], s))

\* A reserved live index was replaced by a valid dest.
C11_WitnessNew ==
    /\ hist.processed # <<>>
    /\ \E n \in Nids, s \in Slots :
        hist.fs0.live[n][s] = NEW_ADDR /\ fs.live[n][s] \in DataAddrs

\* ---------------------------------------------------------------- C12
\* Discovery is at an fsync-marked recoverable block whose inode has no
\* entry yet and cannot be found: no NAT entry, and no inode page to
\* materialize it from.
AtNotFound ==
    /\ pc = "find"
    /\ f3fs_is_valid_blkaddr(blkaddr)
    /\ is_recoverable_dnode(disk[blkaddr])
    /\ is_fsync_dnode(disk[blkaddr])
    /\ get_fsync_inode(inode_list, ino_of_node(disk[blkaddr])) = 0
    /\ ino_of_node(disk[blkaddr]) \notin fs.nat
    /\ ~(~check_only /\ IS_INODE(disk[blkaddr]) /\ is_dent_dnode(disk[blkaddr]))

\* The repair pass is at the inode page that carries the entry's dentry.
AtDentry ==
    /\ AtTablePage
    /\ IS_INODE(disk[blkaddr])
    /\ inode_list[get_fsync_inode(inode_list, ino_of_node(disk[blkaddr]))].last_dentry
            = blkaddr

\* The parent directory cannot be found; the name resolves to another inode
\* that cannot be found.
DirNotFound ==
    AtDentry /\ get_fsync_inode(dir_list, DirIno) = 0 /\ DirIno \notin fs.nat
ForeignNotFound ==
    /\ AtDentry /\ ~DirNotFound
    /\ fs.dir[ino_of_node(disk[blkaddr])] \notin {0, ino_of_node(disk[blkaddr])}
    /\ fs.dir[ino_of_node(disk[blkaddr])] \notin fs.nat

\* Every fsync-marked block of the walked chain is of an inode that cannot
\* be opened.
OnlyNotFound ==
    /\ FsyncOnChain
    /\ \A i \in Inos : FsyncPos(i) # {} => ~Openable(i)

\* C12: in discovery a block whose inode open fails with -ENOENT is skipped:
\* the table is unchanged, the walk goes on at the label next (the next block,
\* or the loop check) and -ENOENT is not reported; a chain made only of such
\* blocks, when nothing else fails, gives an empty table, no checkpoint and
\* return value 0. In the repair pass a parent directory that is not found
\* makes recover_dentry return -ENOENT and a foreign inode that is not found
\* -EEXIST, and either ends the repair pass and the call with a negative error.
C12_NotFound ==
    [][/\ (AtNotFound /\ ~hist'.io_err)
            => /\ inode_list' = inode_list
               /\ err' \in {0, EINVAL}
               /\ err' = 0 => (pc' = "find"
                               /\ blkaddr' = next_blkaddr_of_node(disk[blkaddr]))
               /\ fs' = fs
       /\ (pc' = "returned" /\ OnlyNotFound' /\ hist'.find_err = 0 /\ hist'.fix_err = 0)
            => (hist'.table = <<>> /\ ~hist'.wrote_cp /\ cp' = 0 /\ retval' = 0)
       /\ DirNotFound
            => /\ recover_dentry(fs, dir_list, ino_of_node(disk[blkaddr]), "none", 0).err
                    = ENOENT
               /\ pc' = "recovered" /\ err' < 0
       /\ ForeignNotFound
            => /\ recover_dentry(fs, dir_list, ino_of_node(disk[blkaddr]), "none", 0).err
                    = EEXIST
               /\ pc' = "recovered" /\ err' < 0
       /\ (pc' = "returned" /\ hist'.repair_err # 0) => retval' < 0]_vars

\* A call that skipped a not-found block in discovery and whose repair pass
\* then stopped because the foreign inode of the colliding name was not found.
C12_Witness ==
    /\ pc = "returned" /\ retval = EEXIST /\ hist.repair_err = EEXIST
    /\ reads # <<>>
    /\ is_fsync_dnode(disk[reads[1]])
    /\ ~IS_INODE(disk[reads[1]])
    /\ ino_of_node(disk[reads[1]]) \notin hist.fs0.nat

\* A chain made only of not-found blocks: nothing to recover.
C12_WitnessOnly ==
    pc = "returned" /\ OnlyNotFound /\ hist.table = <<>> /\ retval = 0 /\ ~check_only

\* The parent directory was not found.
C12_WitnessDir ==
    pc = "returned" /\ retval = ENOENT /\ hist.repair_err = ENOENT

\* ---------------------------------------------------------------- C13
\* The step in which SBI_QUOTA_NEED_REPAIR gets set.
QuotaFlagSet == ~sbi.quota_need_repair /\ sbi'.quota_need_repair

\* C13 as claimed: the step that sets the flag recovers the rest of the inode
\* and the node block and goes on to the next block, and the call does not
\* fail for it.
C13_Claimed ==
    [][/\ QuotaFlagSet
            => /\ pc' = "recover" /\ err' = 0
               /\ hist'.processed = Append(hist.processed, blkaddr)
               /\ fs'.i_size[ino_of_node(disk[blkaddr])] = disk[blkaddr].size
       /\ (pc' = "returned" /\ sbi'.quota_need_repair /\ hist'.cp_err = 0)
            => retval' = 0]_vars

\* C13: a failed uid/gid quota transfer in recover_inode sets
\* SBI_QUOTA_NEED_REPAIR and is fatal: recover_inode returns the error with
\* only the mode of the inode recovered, the block is not processed, the
\* repair pass stops, no checkpoint is written and the call returns the
\* negative error.
C13_QuotaFatal ==
    [][/\ (AtTablePage /\ IS_INODE(disk[blkaddr]))
            => LET r == recover_inode(fs, ino_of_node(disk[blkaddr]), disk[blkaddr],
                                      "dquot_transfer")
               IN  r.quota_need_repair /\ r.err < 0
       /\ QuotaFlagSet
            => /\ AtTablePage /\ IS_INODE(disk[blkaddr])
               /\ pc' = "recovered" /\ err' < 0
               /\ hist'.processed = hist.processed
               /\ fs' = [fs EXCEPT !.i_mode[ino_of_node(disk[blkaddr])] =
                                        disk[blkaddr].mode]
       /\ (pc' = "returned" /\ sbi'.quota_need_repair)
            => (retval' < 0 /\ ~hist'.wrote_cp /\ cp' = 0)]_vars

\* A call that failed on the quota transfer of inode 2 after it had
\* processed a block: the mode is the page's, the size is not.
C13_Witness ==
    /\ pc = "returned" /\ sbi.quota_need_repair /\ retval < 0
    /\ hist.processed # <<>>
    /\ fs.i_mode[2] = NewMode /\ fs.i_size[2] # 1

\* ---------------------------------------------------------------- C14
Entries(head, i) == Cardinality({k \in 1..Len(head) : head[k].ino = i})

\* Every handle held is the handle of an entry of one of the three lists.
HandlesOfEntries ==
    \A i \in AllInos :
        irefs[i] = Entries(inode_list, i) + Entries(tmp_inode_list, i)
                   + Entries(dir_list, i)

\* C14: on every path of f3fs_recover_fsync_data the entries of the inode
\* list and of the tmp list are destroyed at the label skip and those of the
\* directory list after the lock is released, each with its inode handle
\* released, so that at return the lists are empty and no handle is held; if
\* discovery or repair failed every entry of the three lists is destroyed with
\* drop = true (its inode is marked synced), and if no error occurred no
\* inode is marked synced.
C14_Teardown ==
    [][/\ HandlesOfEntries'
       /\ pc = "skip"
            => /\ inode_list' = <<>> /\ tmp_inode_list' = <<>>
               /\ synced' = synced \cup
                    (IF hist.find_err # 0 \/ hist.repair_err # 0
                     THEN InosOf(inode_list) \cup InosOf(tmp_inode_list) ELSE {})
       /\ pc = "unlock"
            => /\ dir_list' = <<>>
               /\ (hist.find_err # 0 \/ hist.repair_err # 0)
                    => synced' = synced \cup InosOf(dir_list)
               /\ (hist.find_err = 0 /\ hist.repair_err = 0 /\ hist.fix_err = 0)
                    => synced' = synced
       /\ pc' = "returned"
            => /\ inode_list' = <<>> /\ tmp_inode_list' = <<>> /\ dir_list' = <<>>
               /\ \A i \in AllInos : irefs'[i] = 0
               /\ (hist'.find_err # 0 \/ hist'.repair_err # 0)
                    => InosOf(hist'.table) \subseteq synced'
               /\ (hist'.find_err = 0 /\ hist'.repair_err = 0 /\ hist'.fix_err = 0)
                    => synced' = {}]_vars

\* A failed repair pass whose file entry and directory entry were dropped.
C14_Witness ==
    /\ pc = "returned" /\ hist.repair_err # 0
    /\ DirIno \in synced
    /\ InosOf(hist.table) # {}
    /\ InosOf(hist.table) \subseteq synced

\* A successful recovery: entries destroyed, nothing dropped.
C14_WitnessKept ==
    RealSuccess /\ hist.table # <<>> /\ synced = {} /\ hist.processed # <<>>

\* ---------------------------------------------------------------- C15
Aborted == hist.find_err # 0 \/ hist.repair_err # 0

\* C15: when discovery or data repair ended with an error the NODE and the
\* META page caches are fully truncated while the checkpoint lock is still
\* held, and no checkpoint is written afterwards; on every path the META
\* pages used as recovery scratch are truncated before the lock is released.
C15_CacheTruncation ==
    /\ pc = "unlock" => cp_locked
    /\ pc \in {"unlock", "commit", "returned"}
        => /\ caches.meta \in {"truncated", "final"}
           /\ Aborted => (caches = [node |-> "final", meta |-> "final"]
                          /\ ~hist.wrote_cp /\ cp = 0)

\* The lock is still held after a failed repair pass that had dirtied node
\* pages, and both caches are truncated.
C15_Witness ==
    /\ pc = "unlock" /\ cp_locked
    /\ hist.repair_err # 0 /\ hist.processed # <<>>
    /\ caches = [node |-> "final", meta |-> "final"]

\* ---------------------------------------------------------------- C16
\* C16: cp_global_sem is taken at entry, before discovery, held through
\* discovery, data repair, the teardown of the inode and tmp lists and the
\* write-pointer fix, released once, at the unlock, on every path, and the
\* final checkpoint is written only with the lock released.
C16_LockProtocol ==
    [][/\ pc' \in {"find", "found", "recover", "recovered", "skip", "unlock"}
            => cp_locked'
       /\ pc' \in {"commit", "returned"} => ~cp_locked'
       /\ (~cp_locked /\ cp_locked') => (pc \in {"idle", "returned"} /\ pc' = "find")
       /\ (cp_locked /\ ~cp_locked')
            => /\ pc = "unlock" /\ pc' = "commit"
               /\ inode_list = <<>> /\ tmp_inode_list = <<>>
       /\ pc' = "commit" => pc = "unlock"
       /\ pc' = "unlock" => pc = "skip"
       /\ pc' = "returned" => pc = "commit"
       /\ cp' # cp => (~cp_locked /\ pc = "commit")
       /\ (fs' # fs \/ inode_list' # inode_list \/ tmp_inode_list' # tmp_inode_list)
            => cp_locked]_vars

\* The checkpoint of a successful recovery was written with the lock released.
C16_Witness ==
    /\ pc = "returned" /\ ~cp_locked
    /\ hist.wrote_cp /\ cp = 1 /\ hist.processed # <<>>

\* ---------------------------------------------------------------- C17
PosIn(q, a) == CHOOSE k \in 1..Len(q) : q[k] = a

\* The repair pass is at a recoverable block whose inode has no entry on the
\* inode list (it never had one, or the entry was moved to the tmp list).
AtOffList ==
    /\ pc = "recover"
    /\ f3fs_is_valid_blkaddr(blkaddr)
    /\ is_recoverable_dnode(disk[blkaddr])
    /\ get_fsync_inode(inode_list, ino_of_node(disk[blkaddr])) = 0

\* No processed block lies after the last fsync-marked block of its inode,
\* and an inode without processed inode page keeps its mode.
NoTrailing ==
    /\ \A k \in 1..Len(hist.processed) :
        LET a == hist.processed[k]
        IN  /\ a \in Range(reads)
            /\ FsyncPos(ino_of_node(disk[a])) # {}
            /\ PosIn(reads, a) <= Max(FsyncPos(ino_of_node(disk[a])))
    /\ \A i \in Inos :
        (/\ RealSuccess
         /\ \A k \in 1..Len(hist.processed) :
                ~(IS_INODE(ProcessedPage(k)) /\ ino_of_node(ProcessedPage(k)) = i))
        => fs.i_mode[i] = hist.fs0.i_mode[i]

\* C17: a block of the repair pass whose inode has no entry on the inode
\* list is skipped: nothing is recovered from it and the pass goes on to the
\* next block, unless the page read fails; the step that processes the block
\* at an entry's last fsync-marked address moves the entry to the tmp list;
\* hence no block after the last fsync-marked block of its inode is ever
\* processed, and an inode none of whose inode pages was processed keeps its
\* mode.
C17_TrailingDropped ==
    /\ []NoTrailing
    /\ [][/\ AtOffList
            => /\ fs' = fs /\ hist'.processed = hist.processed /\ lists' = lists
               /\ \/ pc' = "recover" /\ blkaddr' = next_blkaddr_of_node(disk[blkaddr])
                  \/ pc' = "recovered" /\ err' # 0
          /\ (PageDone /\ inode_list[get_fsync_inode(inode_list,
                            ino_of_node(disk[blkaddr]))].blkaddr = blkaddr)
            => /\ ino_of_node(disk[blkaddr]) \notin InosOf(inode_list')
               /\ ino_of_node(disk[blkaddr]) \in InosOf(tmp_inode_list')]_vars

\* A successful recovery of inode 2 from its fsync-marked direct node, with a
\* trailing unmarked inode page that was not applied: the mode is the old one.
C17_Witness ==
    /\ RealSuccess
    /\ \E k \in 1..Len(hist.processed) : ProcessedPage(k).nid = DNid(2)
    /\ \E a \in Range(reads) :
        /\ is_recoverable_dnode(disk[a]) /\ disk[a].nid = 2
        /\ a \notin Range(hist.processed)
        /\ disk[a].mode = NewMode
    /\ fs.i_mode[2] = OldMode

\* ---------------------------------------------------------------- C18
\* The name of the file at the block under repair resolves to another inode.
Colliding(st, ino) == st.dir[ino] \notin {0, ino}

EinodeFaults == {"iget_einode", "dquot_einode", "acquire_orphan_inode"}

\* What recover_dentry does at the block under repair, for every failure and
\* every number of -ENOMEM answers of f3fs_add_dentry.
DentryResult(ino) ==
    \A fault \in RepairFaults, oom \in 0..MaxOom :
        LET r == recover_dentry(fs, dir_list, ino, fault, oom)
            quiet == recover_dentry(fs, dir_list, ino, fault, 0)
        IN  /\ r.err = 0
                => /\ r.st.dir[ino] = ino
                   /\ r.st.orphans = fs.orphans + (IF Colliding(fs, ino) THEN 1 ELSE 0)
                   /\ r.st = [fs EXCEPT !.dir[ino] = ino, !.orphans = r.st.orphans]
            /\ r.st.dir[ino] # fs.dir[ino] => r.st.orphans = fs.orphans + 1
                                              \/ ~Colliding(fs, ino)
            /\ (Colliding(fs, ino) /\ fault \in EinodeFaults
                /\ (DirIno \in fs.nat \/ get_fsync_inode(dir_list, DirIno) # 0))
                => (r.err < 0 /\ r.st = fs)
            /\ (Colliding(fs, ino) /\ fs.dir[ino] \notin fs.nat) => (r.err < 0 /\ r.st = fs)
            /\ r.err = quiet.err /\ r.st = quiet.st
            /\ (r.err = 0 /\ fs.dir[ino] # ino) => r.tries >= oom

\* C18: when recover_dentry returns 0 the parent directory maps the name to
\* the recovered ino; an entry of that name that resolved to a different ino
\* was deleted, after its inode was opened, its quota initialized and an
\* orphan slot acquired, and when one of these fails nothing is deleted and
\* the error is returned; -ENOMEM answers of f3fs_add_dentry are retried and
\* change nothing in the result once they stop.
C18_DentryRepair ==
    [][/\ AtDentry => DentryResult(ino_of_node(disk[blkaddr]))
       /\ (AtDentry /\ PageDone) => fs'.dir[ino_of_node(disk[blkaddr])]
                                        = ino_of_node(disk[blkaddr])
       /\ fs'.orphans # fs.orphans
            => /\ AtDentry /\ Colliding(fs, ino_of_node(disk[blkaddr]))
               /\ fs'.orphans = fs.orphans + 1
               /\ fs.dir[ino_of_node(disk[blkaddr])] \in fs.nat
       /\ \A i \in Inos : fs'.dir[i] # fs.dir[i]
            => (AtDentry /\ i = ino_of_node(disk[blkaddr]))]_vars

\* A colliding entry was deleted and the name added after f3fs_add_dentry had
\* failed MaxOom times with -ENOMEM.
C18_Witness ==
    /\ pc = "recover" /\ hist.processed # <<>>
    /\ hist.retried = MaxOom + 1
    /\ \E i \in Inos : /\ hist.fs0.dir[i] = OldIno
                       /\ fs.dir[i] = i
                       /\ fs.orphans = 1

\* Opening the foreign inode failed: nothing was deleted.
C18_WitnessKept ==
    /\ pc = "recovered" /\ err < 0
    /\ \E i \in Inos : hist.fs0.dir[i] = OldIno /\ fs.dir[i] = OldIno /\ fs.orphans = 0
    /\ DirIno \in InosOf(dir_list)

\* ---------------------------------------------------------------- C19
\* C19: the RDONLY bit saved at entry is the bit of the superblock at entry,
\* the saved value does not change during the call, RDONLY is clear from
\* entry to return, and at return the bit is the saved one again.
C19_FlagsRestored ==
    [][/\ (pc \in {"idle", "returned"} /\ pc' = "find")
            => (s_flags' = sbi.rdonly /\ ~sbi'.rdonly)
       /\ (pc \notin {"idle", "returned"}) => s_flags' = s_flags
       /\ (pc' \notin {"idle", "returned"}) => ~sbi'.rdonly
       /\ pc' = "returned" => sbi'.rdonly = s_flags
       /\ (pc = "returned" /\ pc' = "find") => sbi.rdonly = s_flags]_vars

\* A filesystem that was read-only at entry is read-only at return, after a
\* recovery that ran the write-pointer fix with RDONLY cleared.
C19_Witness ==
    /\ pc = "returned" /\ s_flags /\ sbi.rdonly
    /\ hist.processed # <<>> /\ hist.fixed /\ hist.wrote_cp

\* ---------------------------------------------------------------- C20
\* The live index of slot s of the node the page at blkaddr recovers.
LiveSlot(s) == fs.live[LiveNid(disk[blkaddr])][s]

\* The same index after the step that processes the page.
LiveSlotAfter(s) == fs'.live[LiveNid(disk[blkaddr])][s]

\* A later slot of the page names the same block as slot s.
ClaimedLater(page, s) ==
    /\ page.addr[s] \in DataAddrs
    /\ \E t \in Slots : t > s /\ page.addr[t] = page.addr[s]

\* The step changed the indices as do_recover_data does when nothing fails.
NothingFailed ==
    fs'.live = do_recover_data(fs, ino_of_node(disk[blkaddr]), disk[blkaddr],
                               "none").st.live

C20_WitnessLost ==
    /\ hist.processed # <<>>
    /\ LET k == Len(hist.processed)
           page == ProcessedPage(k)
       IN  /\ page.addr[0] = NEW_ADDR
           /\ fs.live[LiveNid(page)][0] = NULL_ADDR
           /\ \E j \in 1..(k - 1) :
                /\ LiveNid(ProcessedPage(j)) = LiveNid(page)
                /\ Dest(j, 0) \in DataAddrs

\* A page naming one block in both slots was processed: the first slot is
\* NULL_ADDR and the second points at the block.
C20_WitnessTwice ==
    /\ hist.processed # <<>>
    /\ LET page == ProcessedPage(Len(hist.processed))
       IN  /\ page.addr[0] = D2 /\ page.addr[1] = D2
           /\ fs.live[LiveNid(page)][0] = NULL_ADDR
           /\ fs.live[LiveNid(page)][1] = D2

\* ---------------------------------------------------------------- C21
\* The calls of the collision resolver made for the last processed page.
Calls == {hist.locks[i] : i \in 1..Len(hist.locks)}

\* The page of the inode under repair and the page of another inode were
\* locked at the same time during the call.
HeldTogether(c) ==
    \E i \in 1..Len(c.held) : c.ino \in c.held[i] /\ c.held[i] \ {c.ino} # {}

\* The call locked the inode page of the inode under repair after it had
\* released it: the resolver reached into another node of the same inode.
Reacquired(c) ==
    \E i, j \in 1..Len(c.held) :
        i < j /\ c.ino \notin c.held[i] /\ c.ino \in c.held[j] /\ c.locked

\* The lock of the inode under repair is at return as it was at entry.
LockRestored(c) ==
    /\ (c.ino \in c.held[1]) = c.locked
    /\ (c.ino \in c.held[Len(c.held)]) = c.locked
    /\ c.held[Len(c.held)] \ {c.ino} = {}

C21_WitnessForeign ==
    \E c \in Calls : c.locked /\ HeldTogether(c) /\ Len(hist.processed) > 0

\* The same with the current inode-page lock not held at entry.
C21_WitnessUnlocked ==
    \E c \in Calls : ~c.locked /\ \E i \in 1..Len(c.held) : c.held[i] \ {c.ino} # {}

\* ---------------------------------------------------------------- C22
\* The step from the label skip invokes f3fs_fix_curseg_write_pointer.
FixInvoked == pc = "skip" /\ hist'.fixed

\* The guard of the write-pointer fix, without the read-only test.
FixGuard ==
    /\ err = 0
    /\ ~check_only \/ inode_list = <<>>
    /\ zoned

\* A failed fix is the return value of the call and no checkpoint follows.
FixFailureReturned ==
    (pc' = "returned" /\ hist.fix_err # 0) =>
        (retval' = hist.fix_err /\ ~hist'.wrote_cp /\ cp' = cp)

\* C22 as claimed: the write-pointer fix is invoked only under its guard and
\* never in a call on a filesystem that was read-only at entry; a failed fix
\* is the return value and no checkpoint is written.
C22_Claimed ==
    [][/\ FixInvoked => (FixGuard /\ ~s_flags)
       /\ FixFailureReturned]_vars

\* The write-pointer fix is invoked exactly when no error occurred, the call
\* is not check-only or the table is empty, and the device is zoned: the
\* read-only test reads the flag the call cleared at entry and never holds.
\* A failed fix is the return value and no checkpoint is written.
C22_GuardAsCoded ==
    [][/\ pc = "skip" => (hist'.fixed <=> FixGuard)
       /\ pc # "idle" /\ pc # "returned" => ~sbi.rdonly
       /\ FixFailureReturned]_vars

\* The write-pointer fix ran in a call on a filesystem read-only at entry.
C22_ReadOnlyFixed ==
    Returned /\ s_flags /\ sbi.rdonly /\ hist.fixed /\ zoned

\* A failed fix after a repair pass: its error is returned, no checkpoint.
C22_FixFailed ==
    /\ Returned /\ hist.fixed /\ hist.fix_err # 0 /\ hist.repaired
    /\ retval = hist.fix_err /\ ~hist.wrote_cp

\* ---------------------------------------------------------------- C23
\* recover_data has returned without error.
RepairSucceeded == pc = "recovered" /\ err = 0

\* The entries of a list, as a set.
EntrySet(head) == {head[k] : k \in 1..Len(head)}

\* C23: whenever recover_data returns without error the inode list is empty:
\* every entry of the table discovery built is on the tmp list, and the
\* repair walk processed the block each entry records as its last; the
\* bug-on check of the list after a successful repair pass does not fire.
C23_ListEmptied ==
    /\ RepairSucceeded =>
        /\ inode_list = <<>>
        /\ EntrySet(tmp_inode_list) = EntrySet(hist.table)
        /\ Len(tmp_inode_list) = Len(hist.table)
        /\ \A e \in EntrySet(hist.table) : e.blkaddr \in Range(hist.processed)
    /\ (hist.repaired /\ hist.repair_err = 0) => ~hist.bug_on

\* A repair pass over a chain with two inodes in the table, one of them with
\* two fsync-marked blocks, returned without error.
C23_Witness ==
    /\ RepairSucceeded
    /\ Len(hist.table) = 2
    /\ Len(hist.processed) = 3
    /\ inode_list = <<>>

====
